---- MODULE Spec2Model ----
(***************************************************************************)
(* A model of the PV_Live API client (src/pvlive_api/pvlive.py): the five  *)
(* query operations of class PVLive, the chunked request loop of _between, *)
(* the retry loop of _fetch_url and the interval alignment.                *)
(*                                                                         *)
(* Time is counted in minutes from an arbitrary midnight UTC.  A Python    *)
(* datetime is a record of its wall-clock fields (lm: local minutes,       *)
(* sec, us) and its tzinfo (aware, off: the UTC offset in minutes).        *)
(***************************************************************************)
EXTENDS Integers, Sequences, FiniteSets, TLC

\* ------------------------------------------------------------------ bounds
\* The largest value of the constructor's `retries` parameter explored.
MaxRetries == 3
\* The largest minute of the instants that the alignment is explored on.
MaxAlignMinute == 61

\* ------------------------------------------------------- program constants
\* timedelta(days=365) and timedelta(days=30) of self.max_range, in days.
NationalDays == 365
RegionalDays == 30
\* The HTTP status _fetch_url treats as fatal.
BadRequest == 400

MinutesPerDay == 24 * 60
max_range_national == NationalDays * MinutesPerDay
max_range_regional == RegionalDays * MinutesPerDay

\* ----------------------------------------------------------- Python values
\* A str or an int value, kept apart so that "gsp" == 0 is False, as in Python.
PyStr(s) == [t |-> "str", s |-> s, n |-> 0]
PyInt(n) == [t |-> "int", s |-> "", n |-> n]
PyBool(b) == [t |-> "bool", s |-> "", n |-> IF b THEN 1 ELSE 0]
PyFloat(n) == [t |-> "float", s |-> "", n |-> n]
PyEq(a, b) == a.t = b.t /\ a.s = b.s /\ a.n = b.n

\* A cell of a data row: a number or None.
Num(n) == [isnull |-> FALSE, v |-> n]
Null == [isnull |-> TRUE, v |-> 0]

\* ------------------------------------------------------------- datetimes
DT(lm, sec, us, aware, off) ==
    [lm |-> lm, sec |-> sec, us |-> us, aware |-> aware, off |-> off]
\* The value None where a datetime may stand.
NoDT == [lm |-> 0, sec |-> 0, us |-> 0, aware |-> FALSE, off |-> -1]

\* dt.minute
Minute(dt) == dt.lm % 60

\* dt + timedelta(minutes, seconds, microseconds): wall-clock arithmetic, the
\* tzinfo is kept.
AddDelta(dt, dmin, dsec, dus) ==
    LET u == dt.us + dus
        s == dt.sec + dsec + (u \div 1000000)
    IN  [dt EXCEPT !.us = u % 1000000,
                   !.sec = s % 60,
                   !.lm = dt.lm + dmin + (s \div 60)]

\* The instant of an aware datetime on the UTC time line, in minutes.
UtcMinute(dt) == dt.lm - dt.off

\* a < b and a <= b of two aware datetimes.
DtLess(a, b) ==
    \/ UtcMinute(a) < UtcMinute(b)
    \/ UtcMinute(a) = UtcMinute(b) /\ a.sec < b.sec
    \/ UtcMinute(a) = UtcMinute(b) /\ a.sec = b.sec /\ a.us < b.us
DtLessEq(a, b) == ~DtLess(b, a)

\* A mutant of DtMin: the request always ends max_range after its start.
DtMinSecond(a, b) == b

\* Python's min(a, b): b only when b < a.
DtMin(a, b) == IF DtLess(b, a) THEN b ELSE a

\* A mutant of _nearest_interval: rounds down to the grid.
NearestIntervalFloor(dt, period) ==
    IF ~(Minute(dt) % period = 0 /\ dt.sec = 0 /\ dt.us = 0)
    THEN AddDelta(dt, -(Minute(dt) % period), -dt.sec, -dt.us)
    ELSE dt

\* PVLive._nearest_interval
_nearest_interval(dt, period) ==
    IF ~(Minute(dt) % period = 0 /\ dt.sec = 0 /\ dt.us = 0)
    THEN AddDelta(AddDelta(dt, -(Minute(dt) % period), -dt.sec, -dt.us),
                  period, 0, 0)
    ELSE dt

\* ------------------------------------------------------------ the catalog
\* self.gsp_ids and self.pes_ids, loaded once by the constructor.
gsp_ids == {0, 1}
pes_ids == {2}

\* ------------------------------------------------------------------ inputs
EntityTypeInputs == {PyStr("gsp"), PyStr("pes"), PyStr("llsoa"), PyInt(0)}
EntityIdInputs == {0, 1, 2, 9}
PeriodInputs == {5, 30, 15}
ExtraFieldsInputs == {PyStr("")}
\* tzinfo of an input datetime: none (naive), UTC, +05:45.
TzInputs == {<<FALSE, 0>>, <<TRUE, 0>>, <<TRUE, 345>>}
\* The wall-clock fields <<minutes, seconds, microseconds>> of a start.
StartInputs == {<<0, 0, 0>>, <<7, 0, 1>>}
\* The distance in minutes from the start instant to the end instant.
SpanInputs == {-1, 0, max_range_regional, max_range_regional + 30,
               2 * (max_range_regional + 30)}
\* The datetime with tzinfo tz at the instant that lies span minutes after s.
EndOf(s, span, tz) ==
    DT(UtcMinute(s) + span + tz[2], s.sec, s.us, tz[1], tz[2])
DateInputs == {0, 1}

NoArgs ==
    [start |-> NoDT, end |-> NoDT, d |-> -1, entity_type |-> PyStr(""),
     entity_id |-> 0, extra_fields |-> PyStr(""), period |-> 0,
     dataframe |-> FALSE, region |-> PyStr(""),
     include_history |-> PyBool(FALSE), by_system_size |-> PyBool(FALSE),
     release |-> PyInt(0)]

\* ------------------------------------------------------------- validation
\* A mutant of _validate_inputs: both kinds are looked up in the gsp catalog.
ValidateInputsOneCatalog(entity_type, entity_id, extra_fields, period) ==
    IF entity_type.t # "str" THEN "TypeError"
    ELSE IF entity_type.s \notin {"pes", "gsp"} THEN "ValueError"
    ELSE IF extra_fields.t # "str" THEN "TypeError"
    ELSE IF entity_type.s = "pes" /\ entity_id # 0 /\ entity_id \notin gsp_ids
         THEN "PVLiveException"
    ELSE IF entity_type.s = "gsp" /\ entity_id \notin gsp_ids
         THEN "PVLiveException"
    ELSE IF period \notin {5, 30} THEN "ValueError"
    ELSE "ok"

\* A mutant of _validate_inputs: the period is not checked.
ValidateInputsNoPeriod(entity_type, entity_id, extra_fields, period) ==
    IF entity_type.t # "str" THEN "TypeError"
    ELSE IF entity_type.s \notin {"pes", "gsp"} THEN "ValueError"
    ELSE IF extra_fields.t # "str" THEN "TypeError"
    ELSE IF entity_type.s = "pes" /\ entity_id # 0 /\ entity_id \notin pes_ids
         THEN "PVLiveException"
    ELSE IF entity_type.s = "gsp" /\ entity_id \notin gsp_ids
         THEN "PVLiveException"
    ELSE "ok"

\* PVLive._validate_inputs: "ok", or the exception it raises.
_validate_inputs(entity_type, entity_id, extra_fields, period) ==
    IF entity_type.t # "str" THEN "TypeError"
    ELSE IF entity_type.s \notin {"pes", "gsp"} THEN "ValueError"
    ELSE IF extra_fields.t # "str" THEN "TypeError"
    ELSE IF entity_type.s = "pes" /\ entity_id # 0 /\ entity_id \notin pes_ids
         THEN "PVLiveException"
    ELSE IF entity_type.s = "gsp" /\ entity_id \notin gsp_ids
         THEN "PVLiveException"
    ELSE IF period \notin {5, 30} THEN "ValueError"
    ELSE "ok"

\* The checks at the head of _between: "ok", or the exception raised.
BetweenChecks(s, e, entity_type, entity_id, extra_fields, period) ==
    LET v == _validate_inputs(entity_type, entity_id, extra_fields, period)
    IN  IF v # "ok" THEN v
        ELSE IF ~s.aware \/ ~e.aware THEN "ValueError"
        ELSE IF DtLess(e, s) THEN "ValueError"
        ELSE "ok"

\* max_range of _between
MaxRangeOf(entity_type, entity_id) ==
    IF entity_id = 0 /\ PyEq(entity_type, PyInt(0))
    THEN max_range_national
    ELSE max_range_regional

\* ------------------------------------------------------------- requests
\* start.isoformat().replace("+00:00", "Z"): the wall-clock fields and the
\* suffix, "Z" (z) or the numeric offset.
IsoFormatZ(dt) ==
    [lm |-> dt.lm, sec |-> dt.sec, us |-> dt.us, z |-> (dt.off = 0),
     off |-> dt.off]
NoParam == [lm |-> 0, sec |-> 0, us |-> 0, z |-> FALSE, off |-> -1]

\* PVLive._compile_params
_compile_params(extra_fields, s, e, period) ==
    LET e2 == IF s # NoDT /\ e = NoDT THEN s ELSE e
    IN  [extra_fields |-> extra_fields.s,
         start |-> IF s # NoDT THEN IsoFormatZ(s) ELSE NoParam,
         end |-> IF e2 # NoDT THEN IsoFormatZ(e2) ELSE NoParam,
         period |-> period]

\* ------------------------------------------------------------- responses
\* The meta the service sends with the records of an entity.
ServerMeta(entity_type) ==
    << (IF entity_type.s = "pes" THEN "pes_id" ELSE "gsp_id"),
       "datetime_gmt", "generation_mw" >>
Row(entity_id, minute, gen) == << Num(entity_id), Num(minute), gen >>

\* The bodies' data the service may answer a request with: nothing, or the
\* record of the request's start; for a day, some records with and without a
\* generation value, with the largest value held by the first record or by
\* later ones.  The service holds data up to the present: once it has
\* answered a request of the call with nothing (earlier), it has nothing for
\* the later sub-ranges either.
DataChoices(operation, entity_id, params, earlier) ==
    LET m == params.start.lm - params.start.off
    IN  IF operation \in {"day_peak", "day_energy"}
        THEN { <<>>,
               << Row(entity_id, m, Null) >>,
               << Row(entity_id, m, Num(2)), Row(entity_id, m + 30, Null),
                  Row(entity_id, m + 60, Num(2)) >>,
               << Row(entity_id, m, Null), Row(entity_id, m + 30, Num(-1)),
                  Row(entity_id, m + 60, Num(3)),
                  Row(entity_id, m + 90, Num(3)) >> }
        ELSE IF \E i \in 1..Len(earlier) : earlier[i] = <<>>
        THEN { <<>> }
        ELSE { <<>>, << Row(entity_id, m, Num(1)) >> }

\* What one GET may come to.  kind "neterr": no response at all (connection
\* error, timeout); otherwise a page with its status, whether its text holds a
\* <p> element, whether its text parses as JSON, and the parsed data and meta.
NoPage ==
    [kind |-> "none", status |-> 0, helper |-> FALSE, json |-> FALSE,
     data |-> <<>>, meta |-> <<>>]
PageOf(status, helper, json, rows, meta) ==
    [kind |-> "page", status |-> status, helper |-> helper, json |-> json,
     data |-> rows, meta |-> meta]
GetOutcomes(operation, a, params, earlier) ==
    { [NoPage EXCEPT !.kind = "neterr"] }
    \cup { PageOf(500, FALSE, FALSE, <<>>, <<>>) }
    \cup { PageOf(BadRequest, h, FALSE, <<>>, <<>>) : h \in BOOLEAN }
    \cup { PageOf(200, FALSE, FALSE, <<>>, <<>>) }
    \cup { PageOf(200, FALSE, TRUE, rows, ServerMeta(a.entity_type)) :
             rows \in DataChoices(operation, a.entity_id, params, earlier) }

\* ------------------------------------------------------------- results
NoResult == [kind |-> "unset", rows |-> <<>>, columns |-> <<>>, value |-> 0]
NoneResult == [NoResult EXCEPT !.kind = "None"]
ListResult(rows) == [NoResult EXCEPT !.kind = "list", !.rows = rows]
TupleResult(row) == [NoResult EXCEPT !.kind = "tuple", !.rows = << row >>]
\* A float, kept as the number of its tenths.
FloatResult(tenths) == [NoResult EXCEPT !.kind = "float", !.value = tenths]
\* x * 0.5 of an integer x, in tenths.
TimesHalf(x) == x * 5

\* PVLive._convert_tuple_to_df: a tuple becomes a one-row table, the None
\* cells become nan (kept as the null cell), the columns are named by meta.
_convert_tuple_to_df(rows, columns) ==
    [NoResult EXCEPT !.kind = "df", !.rows = rows, !.columns = columns]

\* meta.index(name): the 1-based place of name in meta, 0 when absent.
IndexOf(meta, name) ==
    IF \E i \in 1..Len(meta) : meta[i] = name
    THEN CHOOSE i \in 1..Len(meta) :
            meta[i] = name /\ \A j \in 1..(i - 1) : meta[j] # name
    ELSE 0

\* A mutant of IndexMax: of several largest values the last one is taken.
IndexMaxLast(rows, g) ==
    LET Key(i) == IF rows[i][g].isnull THEN -1000000 ELSE rows[i][g].v
    IN  CHOOSE i \in 1..Len(rows) :
            /\ \A j \in 1..Len(rows) : Key(j) <= Key(i)
            /\ \A j \in (i + 1)..Len(rows) : Key(j) < Key(i)

\* max(range(len(gens)), key=gens.__getitem__): the first index of a largest
\* value, a None generation counting as -1e308.
IndexMax(rows, g) ==
    LET Key(i) == IF rows[i][g].isnull THEN -1000000 ELSE rows[i][g].v
    IN  CHOOSE i \in 1..Len(rows) :
            /\ \A j \in 1..Len(rows) : Key(j) <= Key(i)
            /\ \A j \in 1..(i - 1) : Key(j) < Key(i)

\* A mutant of SumGen: the sum ends at the first None.
RECURSIVE SumGenUntilNone(_, _)
SumGenUntilNone(rows, g) ==
    IF rows = <<>> \/ Head(rows)[g].isnull THEN 0
    ELSE Head(rows)[g].v + SumGenUntilNone(Tail(rows), g)

\* sum([x[gen_index] if x[gen_index] is not None else 0 for x in data])
RECURSIVE SumGen(_, _)
SumGen(rows, g) ==
    IF rows = <<>> THEN 0
    ELSE (IF Head(rows)[g].isnull THEN 0 ELSE Head(rows)[g].v)
         + SumGen(Tail(rows), g)

\* What a call does with the (data, meta) that _between returned: the code
\* after the call of _between in between, at_time, day_peak and day_energy.
\* A record of the outcome ("returned" or the exception) and the result.
Returned(r) == [outcome |-> "returned", result |-> r]
Raised(kind) == [outcome |-> kind, result |-> NoResult]
AfterBetween(operation, a, rows, meta) ==
    CASE operation = "between" ->
           Returned(IF a.dataframe THEN _convert_tuple_to_df(rows, meta)
                    ELSE ListResult(rows))
      [] operation = "at_time" ->
           IF a.dataframe THEN Returned(_convert_tuple_to_df(rows, meta))
           ELSE IF rows = <<>> THEN Raised("IndexError")
           ELSE Returned(TupleResult(rows[1]))
      [] operation = "day_peak" ->
           IF rows # <<>>
           THEN LET g == IndexOf(meta, "generation_mw")
                    maxdata == rows[IndexMax(rows, g)]
                IN  Returned(IF a.dataframe
                             THEN _convert_tuple_to_df(<< maxdata >>, meta)
                             ELSE TupleResult(maxdata))
           ELSE Returned(NoneResult)
      [] operation = "day_energy" ->
           IF rows # <<>>
           THEN Returned(FloatResult(TimesHalf(
                    SumGen(rows, IndexOf(meta, "generation_mw")))))
           ELSE Returned(NoneResult)

\* A mutant of AfterLatest: the data is returned as received, not unwrapped.
AfterLatestRaw(a, resp) ==
    IF resp.data # <<>>
    THEN Returned(IF a.dataframe
                  THEN _convert_tuple_to_df(resp.data, resp.meta)
                  ELSE ListResult(resp.data))
    ELSE Returned(NoneResult)

\* The code of latest after its request.
AfterLatest(a, resp) ==
    IF resp.data # <<>>
    THEN Returned(IF a.dataframe
                  THEN _convert_tuple_to_df(<< resp.data[1] >>, resp.meta)
                  ELSE TupleResult(resp.data[1]))
    ELSE Returned(NoneResult)

\* ----------------------------------------------------- the retry loop
\* A mutant of TryAgain: one attempt too many.
TryAgainOffByOne(success, try_counter, n_retries) ==
    ~success /\ try_counter <= n_retries + 1

\* The condition of the while loop of _fetch_url.
TryAgain(success, try_counter, n_retries) ==
    ~success /\ try_counter < n_retries + 1

\* A mutant of NextDelay: the delay grows linearly.
NextDelayLinear(delay) == delay + 1

\* delay *= 2
NextDelay(delay) == delay * 2

\* A mutant of IsFatal: no status is fatal.
IsFatalNever(status) == FALSE

\* page.status_code == 400
IsFatal(status) == status = BadRequest

\* A mutant of ParseOutcome: a body that does not parse is passed on.
ParseOutcomeLenient(p, parse_json) == "ok"

\* The try block that ends _fetch_url: json.loads(page.text) or the page.
ParseOutcome(p, parse_json) ==
    IF parse_json /\ ~p.json THEN "PVLiveException" ELSE "ok"

\* A mutant of Extend: the newer chunk is put in front.
ExtendPrepend(rows, more) == more \o rows

\* A mutant of Extend: the data of the last response replaces the rest.
ExtendOverwrite(rows, more) == more

\* data += response["data"]
Extend(rows, more) == rows \o more

\* A mutant of NextStart: the next request starts where the last one ended.
NextStartNoPeriod(request_start, range, period) ==
    AddDelta(request_start, range, 0, 0)

\* request_start += max_range + timedelta(minutes=period)
NextStart(request_start, range, period) ==
    AddDelta(request_start, range + period, 0, 0)

\* ------------------------------------------------------------------ state
VARIABLES
    retries,        \* self.retries
    pc,             \* where the call stands: "idle", "loop", "fetch", "done"
    op,             \* the operation called
    args,           \* its arguments
    start,          \* _between: start after alignment
    end,            \* _between: end after alignment
    request_start,  \* _between: the cursor
    max_range,      \* _between: the span of one request, in minutes
    data,           \* _between: the rows gathered so far
    response,       \* the last parsed response
    requests,       \* the params of every request issued by the call
    responses,      \* the data of every response received by the call
    try_counter,    \* _fetch_url
    delay,          \* _fetch_url
    success,        \* _fetch_url
    page,           \* _fetch_url: the last page received
    attempts,       \* the status of every GET of this request (0: none)
    sleeps,         \* the delays slept during this request
    gets,           \* the number of GETs of the call
    outcome,        \* "none", "returned" or the exception raised
    result,         \* the value returned
    deployment_releases,  \* self.deployment_releases
    filenames,      \* deployment: the file names of the release
    urls            \* deployment: what _fetch_url was called for

callVars == << op, args >>
loopVars == << start, end, request_start, max_range, data >>
fetchVars == << try_counter, delay, success, page, attempts, sleeps >>
deployVars == << deployment_releases, filenames, urls >>
vars == << retries, pc, op, args, start, end, request_start, max_range, data,
           response, requests, responses, try_counter, delay, success, page,
           attempts, sleeps, gets, outcome, result, deployVars >>

\* self.deployment_releases: None, or the datestamps of the releases, the
\* latest first.  A datestamp (YYYYMMDD) is kept as its number.
NoReleases == [known |-> FALSE, list |-> <<>>]
ReleasesOf(list) == [known |-> TRUE, list |-> list]

NoResponse == [bound |-> FALSE, data |-> <<>>, meta |-> <<>>]
ResponseOf(p) == [bound |-> TRUE, data |-> p.data, meta |-> p.meta]

Init ==
    /\ retries \in 0..MaxRetries
    /\ pc = "idle"
    /\ op = "none"
    /\ args = NoArgs
    /\ start = NoDT
    /\ end = NoDT
    /\ request_start = NoDT
    /\ max_range = 0
    /\ data = <<>>
    /\ response = NoResponse
    /\ requests = <<>>
    /\ responses = <<>>
    /\ try_counter = 0
    /\ delay = 1
    /\ success = FALSE
    /\ page = NoPage
    /\ attempts = <<>>
    /\ sleeps = <<>>
    /\ gets = 0
    /\ outcome = "none"
    /\ result = NoResult
    /\ deployment_releases = NoReleases
    /\ filenames = <<>>
    /\ urls = <<>>

\* The call ends: it returns a value or raises.
Finish(o) ==
    /\ pc' = "done"
    /\ outcome' = o.outcome
    /\ result' = o.result

\* A mutant of QueryApi: the attempt counter and the delay are carried over
\* from the request before.
QueryApiCarryOver(params) ==
    /\ requests' = Append(requests, params)
    /\ success' = FALSE
    /\ page' = NoPage
    /\ attempts' = <<>>
    /\ sleeps' = <<>>
    /\ pc' = "fetch"
    /\ UNCHANGED << try_counter, delay >>

\* _query_api(entity_type, entity_id, params): the request is built and
\* _fetch_url starts on it.
QueryApi(params) ==
    /\ requests' = Append(requests, params)
    /\ try_counter' = 0
    /\ delay' = 1
    /\ success' = FALSE
    /\ page' = NoPage
    /\ attempts' = <<>>
    /\ sleeps' = <<>>
    /\ pc' = "fetch"

\* _between up to its loop, called with the arguments a of operation o.
EnterBetween(o, a) ==
    /\ op' = o
    /\ args' = a
    /\ LET chk == BetweenChecks(a.start, a.end, a.entity_type, a.entity_id,
                                a.extra_fields, a.period)
       IN  IF chk # "ok"
           THEN /\ Finish(Raised(chk))
                /\ UNCHANGED << loopVars, response, requests, responses,
                                fetchVars, gets, retries, deployVars >>
           ELSE /\ start' = _nearest_interval(a.start, a.period)
                /\ end' = _nearest_interval(a.end, a.period)
                /\ request_start' = start'
                /\ max_range' = MaxRangeOf(a.entity_type, a.entity_id)
                /\ data' = <<>>
                /\ pc' = "loop"
                /\ UNCHANGED << response, requests, responses, fetchVars,
                                gets, retries, deployVars, outcome, result >>

\* PVLive.latest
Latest ==
    /\ pc = "idle"
    /\ \E et \in EntityTypeInputs, id \in EntityIdInputs,
          xf \in ExtraFieldsInputs, p \in PeriodInputs, df \in BOOLEAN :
        LET a == [NoArgs EXCEPT !.entity_type = et, !.entity_id = id,
                                !.extra_fields = xf, !.period = p,
                                !.dataframe = df]
            chk == _validate_inputs(et, id, xf, p)
        IN  /\ op' = "latest"
            /\ args' = a
            /\ IF chk # "ok"
               THEN /\ Finish(Raised(chk))
                    /\ UNCHANGED << requests, fetchVars >>
               ELSE /\ QueryApi(_compile_params(xf, NoDT, NoDT, p))
                    /\ UNCHANGED << outcome, result >>
            /\ UNCHANGED << loopVars, response, responses, gets, retries, deployVars >>

\* PVLive.between
Between ==
    /\ pc = "idle"
    /\ \E s0 \in StartInputs, stz \in TzInputs, span \in SpanInputs,
          etz \in TzInputs, et \in EntityTypeInputs, id \in EntityIdInputs,
          xf \in ExtraFieldsInputs, p \in PeriodInputs, df \in BOOLEAN :
        LET s == DT(s0[1], s0[2], s0[3], stz[1], stz[2])
        IN  EnterBetween("between",
                [NoArgs EXCEPT !.start = s, !.end = EndOf(s, span, etz),
                               !.entity_type = et, !.entity_id = id,
                               !.extra_fields = xf, !.period = p,
                               !.dataframe = df])

\* PVLive.at_time
AtTime ==
    /\ pc = "idle"
    /\ \E s0 \in StartInputs, stz \in TzInputs, et \in EntityTypeInputs,
          id \in EntityIdInputs, xf \in ExtraFieldsInputs,
          p \in PeriodInputs, df \in BOOLEAN :
        LET dt == DT(s0[1], s0[2], s0[3], stz[1], stz[2])
        IN  EnterBetween("at_time",
                [NoArgs EXCEPT !.start = dt, !.end = dt,
                               !.entity_type = et, !.entity_id = id,
                               !.extra_fields = xf, !.period = p,
                               !.dataframe = df])

\* datetime.combine(d, time(0, 30, tzinfo=pytz.UTC))
DayStart(d) == DT(d * MinutesPerDay + 30, 0, 0, TRUE, 0)
\* start + timedelta(days=1) - timedelta(minutes=30)
DayEnd(d) == AddDelta(AddDelta(DayStart(d), MinutesPerDay, 0, 0), -30, 0, 0)

\* PVLive.day_peak
DayPeak ==
    /\ pc = "idle"
    /\ \E d \in DateInputs, et \in EntityTypeInputs, id \in EntityIdInputs,
          xf \in ExtraFieldsInputs, p \in PeriodInputs, df \in BOOLEAN :
        EnterBetween("day_peak",
            [NoArgs EXCEPT !.d = d, !.start = DayStart(d), !.end = DayEnd(d),
                           !.entity_type = et, !.entity_id = id,
                           !.extra_fields = xf, !.period = p,
                           !.dataframe = df])

\* PVLive.day_energy
DayEnergy ==
    /\ pc = "idle"
    /\ \E d \in DateInputs, et \in EntityTypeInputs, id \in EntityIdInputs :
        EnterBetween("day_energy",
            [NoArgs EXCEPT !.d = d, !.start = DayStart(d), !.end = DayEnd(d),
                           !.entity_type = et, !.entity_id = id,
                           !.extra_fields = PyStr(""), !.period = 30])

\* One iteration of the while loop of _between, up to its request.
LoopIter ==
    /\ pc = "loop"
    /\ DtLessEq(request_start, end)
    /\ LET request_end ==
               DtMin(end, AddDelta(request_start, max_range, 0, 0))
       IN  QueryApi(_compile_params(args.extra_fields, request_start,
                                    request_end, args.period))
    /\ UNCHANGED << retries, deployVars, callVars, loopVars, response, responses, gets,
                    outcome, result >>

\* The loop of _between has ended: _between returns and its caller goes on.
LoopExit ==
    /\ pc = "loop"
    /\ ~DtLessEq(request_start, end)
    /\ IF ~response.bound
       THEN Finish(Raised("UnboundLocalError"))
       ELSE Finish(AfterBetween(op, args, data, response.meta))
    /\ UNCHANGED << retries, deployVars, callVars, loopVars, response, requests,
                    responses, fetchVars, gets >>

\* One iteration of the while loop of _fetch_url, run for the caller that
\* stands at where: a GET, which comes to one of outcomes, and what follows.
GetAt(where, outcomes) ==
    /\ pc = where
    /\ TryAgain(success, try_counter, retries)
    /\ \E o \in outcomes :
        /\ try_counter' = try_counter + 1
        /\ gets' = gets + 1
        /\ attempts' = Append(attempts, o.status)
        /\ IF o.kind = "neterr"
           THEN /\ Finish(Raised("ConnectionError"))
                /\ UNCHANGED << page, success, delay, sleeps >>
           ELSE IF o.status = 200
           THEN /\ page' = o
                /\ success' = TRUE
                /\ UNCHANGED << delay, sleeps, pc, outcome, result >>
           ELSE IF IsFatal(o.status)
           THEN /\ page' = o
                /\ Finish(Raised(IF o.helper THEN "PVLiveException"
                                 ELSE "AttributeError"))
                /\ UNCHANGED << success, delay, sleeps >>
           ELSE /\ page' = o
                /\ sleeps' = Append(sleeps, delay)
                /\ delay' = NextDelay(delay)
                /\ UNCHANGED << success, pc, outcome, result >>
    /\ UNCHANGED << retries, deployVars, callVars, loopVars, response, requests,
                    responses >>

\* The GET of a service that sends the records and their meta.
GetFrom(outcomes) == GetAt("fetch", outcomes)
Get == GetFrom(GetOutcomes(op, args, requests[Len(requests)], responses))

\* _fetch_url after its loop, and the caller's code after _query_api.
FetchEnd ==
    /\ pc = "fetch"
    /\ ~TryAgain(success, try_counter, retries)
    /\ IF ~success \/ ParseOutcome(page, TRUE) # "ok"
       THEN /\ Finish(Raised("PVLiveException"))
            /\ UNCHANGED << response, responses, data, request_start >>
       ELSE /\ response' = ResponseOf(page)
            /\ responses' = Append(responses, page.data)
            /\ IF op = "latest"
               THEN /\ Finish(AfterLatest(args, response'))
                    /\ UNCHANGED << data, request_start >>
               ELSE /\ data' = Extend(data, page.data)
                    /\ request_start' =
                           NextStart(request_start, max_range, args.period)
                    /\ pc' = "loop"
                    /\ UNCHANGED << outcome, result >>
    /\ UNCHANGED << retries, deployVars, callVars, start, end, max_range, requests,
                    fetchVars, gets >>

Next ==
    \/ Latest
    \/ Between
    \/ AtTime
    \/ DayPeak
    \/ DayEnergy
    \/ LoopIter
    \/ LoopExit
    \/ Get
    \/ FetchEnd

Spec == Init /\ [][Next]_vars

\* ------------------------------------------- the alignment on its own
\* _nearest_interval applied to one instant: the instants of the first
\* MaxAlignMinute minutes, with and without seconds and microseconds, in
\* three time zones, for both periods.
AlignInputs ==
    { DT(m, sec, us, TRUE, off) :
        m \in 0..MaxAlignMinute, sec \in {0, 1, 59}, us \in {0, 1, 999999},
        off \in {0, 345, -60} }

InitAlign ==
    /\ retries = 0
    /\ pc = "align"
    /\ op = "_nearest_interval"
    /\ \E t \in AlignInputs, p \in {5, 30} :
          args = [NoArgs EXCEPT !.start = t, !.period = p]
    /\ start = NoDT
    /\ end = NoDT
    /\ request_start = NoDT
    /\ max_range = 0
    /\ data = <<>>
    /\ response = NoResponse
    /\ requests = <<>>
    /\ responses = <<>>
    /\ try_counter = 0
    /\ delay = 1
    /\ success = FALSE
    /\ page = NoPage
    /\ attempts = <<>>
    /\ sleeps = <<>>
    /\ gets = 0
    /\ outcome = "none"
    /\ result = NoResult
    /\ deployment_releases = NoReleases
    /\ filenames = <<>>
    /\ urls = <<>>

Align ==
    /\ pc = "align"
    /\ start' = _nearest_interval(args.start, args.period)
    /\ pc' = "aligned"
    /\ UNCHANGED << retries, deployVars, callVars, end, request_start, max_range, data,
                    response, requests, responses, fetchVars, gets, outcome,
                    result >>

NextAlign == Align

SpecAlign == InitAlign /\ [][NextAlign]_vars

\* ------------------------------------------- long intervals on their own
\* between over intervals of up to 400 days, by a client without retries:
\* intervals of one request, intervals that just need a second one for
\* either period, and the interval of 400 days, in UTC and in +05:45.
LongSpanInputs ==
    {0, max_range_regional, max_range_regional + 5, max_range_regional + 30,
     400 * MinutesPerDay}
LongTzInputs == {<<TRUE, 0>>, <<TRUE, 345>>}

InitLong == Init /\ retries = 0

BetweenLong ==
    /\ pc = "idle"
    /\ \E s0 \in StartInputs, tz \in LongTzInputs, span \in LongSpanInputs,
          et \in {PyStr("gsp"), PyStr("pes")}, id \in EntityIdInputs,
          p \in {5, 30} :
        LET s == DT(s0[1], s0[2], s0[3], tz[1], tz[2])
        IN  EnterBetween("between",
                [NoArgs EXCEPT !.start = s, !.end = EndOf(s, span, tz),
                               !.entity_type = et, !.entity_id = id,
                               !.period = p])

NextLong ==
    \/ BetweenLong
    \/ LoopIter
    \/ LoopExit
    \/ Get
    \/ FetchEnd

SpecLong == InitLong /\ [][NextLong]_vars

\* ------------------------------------------- the validation on its own
\* _validate_inputs applied to one set of arguments: the kinds and
\* identifiers of the calls above, extra_fields that are and are not a str,
\* periods that are and are not supported.
ValidateExtraFieldsInputs == {PyStr(""), PyStr("ucl_mw"), PyInt(0)}
ValidatePeriodInputs == {5, 30, 15, 0}

InitValidate ==
    /\ retries = 0
    /\ pc = "validate"
    /\ op = "_validate_inputs"
    /\ \E et \in EntityTypeInputs, id \in EntityIdInputs,
          xf \in ValidateExtraFieldsInputs, p \in ValidatePeriodInputs :
          args = [NoArgs EXCEPT !.entity_type = et, !.entity_id = id,
                                !.extra_fields = xf, !.period = p]
    /\ start = NoDT
    /\ end = NoDT
    /\ request_start = NoDT
    /\ max_range = 0
    /\ data = <<>>
    /\ response = NoResponse
    /\ requests = <<>>
    /\ responses = <<>>
    /\ try_counter = 0
    /\ delay = 1
    /\ success = FALSE
    /\ page = NoPage
    /\ attempts = <<>>
    /\ sleeps = <<>>
    /\ gets = 0
    /\ outcome = "none"
    /\ result = NoResult
    /\ deployment_releases = NoReleases
    /\ filenames = <<>>
    /\ urls = <<>>

\* The call returns (None) or raises.
Validate ==
    /\ pc = "validate"
    /\ LET v == _validate_inputs(args.entity_type, args.entity_id,
                                 args.extra_fields, args.period)
       IN  Finish(IF v = "ok" THEN Returned(NoneResult) ELSE Raised(v))
    /\ UNCHANGED << retries, deployVars, callVars, loopVars, response, requests,
                    responses, fetchVars, gets >>

NextValidate == Validate

SpecValidate == InitValidate /\ [][NextValidate]_vars

\* ------------------------------------- a service that counts its records
\* The service may add the field n_records to the meta and the number of
\* records to every record of a body.
WithCount(p) ==
    [p EXCEPT !.meta = Append(p.meta, "n_records"),
              !.data = [i \in 1..Len(p.data) |->
                           Append(p.data[i], Num(Len(p.data)))]]
CountedOutcomes(operation, a, params, earlier) ==
    LET plain == GetOutcomes(operation, a, params, earlier)
    IN  plain \cup { WithCount(p) : p \in { q \in plain : q.json } }

GetCounted ==
    GetFrom(CountedOutcomes(op, args, requests[Len(requests)], responses))

NextCount ==
    \/ Latest
    \/ Between
    \/ AtTime
    \/ DayPeak
    \/ LoopIter
    \/ LoopExit
    \/ GetCounted
    \/ FetchEnd

SpecCount == InitLong /\ [][NextCount]_vars

\* ------------------------------------------------------- the deployment
\* A datestamp string (YYYYMMDD), kept by its number.
PyStamp(n) == [t |-> "str", s |-> "YYYYMMDD", n |-> n]

RegionInputs == {PyStr("gsp"), PyStr("llsoa"), PyStr("pes"), PyInt(0)}
IncludeHistoryInputs == {PyBool(TRUE), PyBool(FALSE), PyInt(0)}
BySystemSizeInputs == {PyBool(TRUE), PyBool(FALSE)}
ReleaseInputs ==
    {PyInt(0), PyInt(1), PyStamp(20231116), PyStamp(19990101), PyFloat(0)}
\* The datestamps that the page of the releases may list, in page order.
ReleasePages == { <<>>, << 20231116 >>, << 20230801, 20231116 >> }
\* self.deployment_releases when the call starts: None, or the list that an
\* earlier call has stored.
CachedReleases == {NoReleases, ReleasesOf(<< 20231116, 20230801 >>)}

\* sorted(releases, reverse=True)
RECURSIVE SortedReverse(_)
SortedReverse(list) ==
    IF list = <<>> THEN <<>>
    ELSE LET i == CHOOSE k \in 1..Len(list) :
                     \A j \in 1..Len(list) : list[j] <= list[k]
         IN  << list[i] >>
               \o SortedReverse(SubSeq(list, 1, i - 1)
                                  \o SubSeq(list, i + 1, Len(list)))

\* A mutant of _validate_deployment_inputs: by_system_size is not checked
\* against include_history.
ValidateDeploymentNoHistory(region, history, size, release, releases) ==
    IF region.t # "str" THEN "TypeError"
    ELSE IF region.s \notin {"gsp", "llsoa"} THEN "ValueError"
    ELSE IF history.t # "bool" THEN "TypeError"
    ELSE IF size.t # "bool" THEN "TypeError"
    ELSE IF size.n = 1 /\ region.s # "gsp" THEN "ValueError"
    ELSE IF release.t \notin {"str", "int"} THEN "TypeError"
    ELSE IF release.t = "str"
              /\ ~\E i \in 1..Len(releases) : releases[i] = release.n
         THEN "ValueError"
    ELSE IF release.t = "int" /\ release.n \notin 0..(Len(releases) - 1)
         THEN "ValueError"
    ELSE "ok"

\* PVLive._validate_deployment_inputs after its call of
\* _get_deployment_releases, which gave releases: "ok", or the exception.
_validate_deployment_inputs(region, history, size, release, releases) ==
    IF region.t # "str" THEN "TypeError"
    ELSE IF region.s \notin {"gsp", "llsoa"} THEN "ValueError"
    ELSE IF history.t # "bool" THEN "TypeError"
    ELSE IF size.t # "bool" THEN "TypeError"
    ELSE IF size.n = 1 /\ region.s # "gsp" THEN "ValueError"
    ELSE IF size.n = 1 /\ history.n # 1 THEN "ValueError"
    ELSE IF release.t \notin {"str", "int"} THEN "TypeError"
    ELSE IF release.t = "str"
              /\ ~\E i \in 1..Len(releases) : releases[i] = release.n
         THEN "ValueError"
    ELSE IF release.t = "int" /\ release.n \notin 0..(Len(releases) - 1)
         THEN "ValueError"
    ELSE "ok"

\* The name of a capacity file, by the parts of its ending.
FileName(region, history, system_size) ==
    [region |-> region, history |-> history, system_size |-> system_size]
\* filename_ending of deployment
filename_ending(a) ==
    FileName(a.region.s, a.include_history.n = 1, a.by_system_size.n = 1)
\* The capacity files that the directory of a release may list.
FilenamePages ==
    { <<>>,
      << FileName("gsp", FALSE, FALSE), FileName("gsp", TRUE, FALSE),
         FileName("gsp", TRUE, TRUE), FileName("llsoa", FALSE, FALSE),
         FileName("llsoa", TRUE, FALSE) >> }

\* What a GET of deployment may come to: as for the records, with the body
\* of the page asked for; the body of a file is or is not a gzipped csv.
DeployOutcomes(where) ==
    { [NoPage EXCEPT !.kind = "neterr"] }
    \cup { PageOf(500, FALSE, FALSE, <<>>, <<>>) }
    \cup { PageOf(BadRequest, h, FALSE, <<>>, <<>>) : h \in BOOLEAN }
    \cup CASE where = "fetch_releases" ->
                { PageOf(200, FALSE, FALSE, list, <<>>) :
                    list \in ReleasePages }
           [] where = "fetch_filenames" ->
                { PageOf(200, FALSE, FALSE, list, <<>>) :
                    list \in FilenamePages }
           [] where = "fetch_file" ->
                { PageOf(200, FALSE, gz, <<>>, <<>>) : gz \in BOOLEAN }

\* _fetch_url(url, parse_json=False) starts for the caller at where.
FetchPage(where, url) ==
    /\ urls' = Append(urls, url)
    /\ try_counter' = 0
    /\ delay' = 1
    /\ success' = FALSE
    /\ page' = NoPage
    /\ attempts' = <<>>
    /\ sleeps' = <<>>
    /\ pc' = where

\* The release asked for, as a datestamp.
ReleaseOf(a, releases) ==
    IF a.release.t = "int" THEN releases[a.release.n + 1] ELSE a.release.n

\* The table that deployment returns, with its column release.
DeploymentResult(release) ==
    [NoResult EXCEPT !.kind = "df", !.columns = << "release" >>,
                     !.value = release]

\* _validate_deployment_inputs once it has the releases, and deployment up
\* to its call of _get_deployment_filenames.
CheckDeployment(a, releases) ==
    LET chk == _validate_deployment_inputs(a.region, a.include_history,
                                           a.by_system_size, a.release,
                                           releases)
    IN  IF chk # "ok"
        THEN /\ Finish(Raised(chk))
             /\ UNCHANGED << fetchVars, urls >>
        ELSE /\ FetchPage("fetch_filenames", "filenames")
             /\ UNCHANGED << outcome, result >>

\* PVLive.deployment, called on an object that has or has not stored the
\* releases in an earlier call (cached).
Deployment ==
    /\ pc = "idle"
    /\ \E region \in RegionInputs, history \in IncludeHistoryInputs,
          size \in BySystemSizeInputs, release \in ReleaseInputs,
          cached \in CachedReleases :
        LET a == [NoArgs EXCEPT !.region = region,
                                !.include_history = history,
                                !.by_system_size = size,
                                !.release = release]
        IN  /\ op' = "deployment"
            /\ args' = a
            /\ deployment_releases' = cached
            /\ IF ~cached.known
               THEN /\ FetchPage("fetch_releases", "releases")
                    /\ UNCHANGED << outcome, result >>
               ELSE CheckDeployment(a, cached.list)
    /\ UNCHANGED << retries, loopVars, response, requests, responses, gets,
                    filenames >>

\* A GET of deployment.
DeployGet ==
    \E where \in {"fetch_releases", "fetch_filenames", "fetch_file"} :
        GetAt(where, DeployOutcomes(where))

\* _fetch_url has ended without a page.
FetchFailed == ~success \/ ParseOutcome(page, FALSE) # "ok"

\* _get_deployment_releases after its _fetch_url, and what follows it.
ReleasesEnd ==
    /\ pc = "fetch_releases"
    /\ ~TryAgain(success, try_counter, retries)
    /\ IF FetchFailed
       THEN /\ Finish(Raised("PVLiveException"))
            /\ UNCHANGED << deployment_releases, fetchVars, urls >>
       ELSE /\ deployment_releases' = ReleasesOf(SortedReverse(page.data))
            /\ CheckDeployment(args, deployment_releases'.list)
    /\ UNCHANGED << retries, callVars, loopVars, response, requests,
                    responses, gets, filenames >>

\* _get_deployment_filenames after its _fetch_url, and deployment up to the
\* download of the file.
FilenamesEnd ==
    /\ pc = "fetch_filenames"
    /\ ~TryAgain(success, try_counter, retries)
    /\ IF FetchFailed
       THEN /\ Finish(Raised("PVLiveException"))
            /\ UNCHANGED << filenames, fetchVars, urls >>
       ELSE /\ filenames' = page.data
            /\ IF \E i \in 1..Len(page.data) :
                     page.data[i] = filename_ending(args)
               THEN /\ FetchPage("fetch_file", "file")
                    /\ UNCHANGED << outcome, result >>
               ELSE /\ Finish(Raised("IndexError"))
                    /\ UNCHANGED << fetchVars, urls >>
    /\ UNCHANGED << retries, callVars, loopVars, response, requests,
                    responses, gets, deployment_releases >>

\* deployment after the download of the file.
FileEnd ==
    /\ pc = "fetch_file"
    /\ ~TryAgain(success, try_counter, retries)
    /\ Finish(IF FetchFailed THEN Raised("PVLiveException")
              ELSE IF ~page.json THEN Raised("BadGzipFile")
              ELSE Returned(DeploymentResult(
                       ReleaseOf(args, deployment_releases.list))))
    /\ UNCHANGED << retries, callVars, loopVars, response, requests,
                    responses, gets, fetchVars, deployVars >>

NextDeploy ==
    \/ Deployment
    \/ DeployGet
    \/ ReleasesEnd
    \/ FilenamesEnd
    \/ FileEnd

SpecDeploy == Init /\ [][NextDeploy]_vars

\* ================================================================ claims
BetweenOps == {"between", "at_time", "day_peak", "day_energy"}

\* The loop of _between has run to its end in this call.
LoopDone ==
    /\ pc = "done"
    /\ op \in BetweenOps
    /\ outcome \in {"returned", "IndexError", "UnboundLocalError"}

\* The sub-range of the i-th request, as instants on the UTC time line.
ReqStart(i) == requests[i].start.lm - requests[i].start.off
ReqEnd(i) == requests[i].end.lm - requests[i].end.off
AlignedStart == UtcMinute(_nearest_interval(args.start, args.period))
AlignedEnd == UtcMinute(_nearest_interval(args.end, args.period))

Last(seq) == seq[Len(seq)]

RECURSIVE SumSeq(_)
SumSeq(seq) == IF seq = <<>> THEN 0 ELSE Head(seq) + SumSeq(Tail(seq))

RECURSIVE Concat(_)
Concat(seqs) == IF seqs = <<>> THEN <<>> ELSE Head(seqs) \o Concat(Tail(seqs))

\* C1: for every timezone-aware start <= end and period in {5, 30}, the
\* sub-ranges that _between requests are non-empty, start at align(start), are
\* strictly increasing and pairwise disjoint, every grid instant of
\* [align(start), align(end)] lies in exactly one of them, and the last one
\* ends at align(end).
C1_ChunksCoverInterval ==
    LoopDone =>
        /\ Len(requests) > 0
        /\ ReqStart(1) = AlignedStart
        /\ \A i \in 1..Len(requests) : ReqStart(i) <= ReqEnd(i)
        /\ \A i \in 1..(Len(requests) - 1) : ReqEnd(i) < ReqStart(i + 1)
        /\ \A k \in 0..((AlignedEnd - AlignedStart) \div args.period) :
              Cardinality({ i \in 1..Len(requests) :
                              /\ ReqStart(i) <= AlignedStart + k * args.period
                              /\ AlignedStart + k * args.period <= ReqEnd(i) })
                = 1
        /\ ReqEnd(Len(requests)) = AlignedEnd

\* C2: for entity_id 0 (the national case) _between uses the span of 365
\* days, so an interval longer than 30 days and no longer than 365 days is
\* fetched with one request; for every other entity it uses 30 days.
C2_NationalSpan ==
    /\ (op \in BetweenOps /\ pc \in {"loop", "fetch"}) =>
          max_range = IF args.entity_id = 0 THEN max_range_national
                      ELSE max_range_regional
    /\ (/\ LoopDone
        /\ args.entity_id = 0
        /\ AlignedEnd - AlignedStart > max_range_regional
        /\ AlignedEnd - AlignedStart <= max_range_national)
          => Len(requests) = 1

\* C3: for one URL _fetch_url makes at most retries + 1 GETs; when every one
\* of them gets a retryable failure (a server error, a network failure) the
\* call raises PVLiveException and returns no payload.
C3_ExhaustionRaises ==
    /\ Len(attempts) <= retries + 1
    /\ (/\ pc = "done"
        /\ Len(attempts) = retries + 1
        /\ \A i \in 1..Len(attempts) : attempts[i] \in {500, 0})
          => (outcome = "PVLiveException" /\ result = NoResult)

\* C4: the delay slept after the k-th consecutive server-error failure is
\* 2^(k-1); k server errors followed by a success return the payload of the
\* success after a total backoff of 2^k - 1.
C4_BackoffDoubles ==
    /\ \A k \in 1..Len(sleeps) : sleeps[k] = 2 ^ (k - 1) /\ attempts[k] = 500
    /\ \A k \in 1..Len(attempts) : attempts[k] = 500 => k <= Len(sleeps)
    /\ (attempts # <<>> /\ Last(attempts) = 200) =>
          SumSeq(sleeps) = 2 ^ (Len(attempts) - 1) - 1
    /\ (attempts # <<>> /\ Last(attempts) = 200 /\ page.json /\ pc # "fetch")
          => (response.bound /\ response.data = page.data
              /\ Last(responses) = page.data)

\* Three server errors, then a success at the fourth attempt with retries = 3:
\* the payload has been returned to the caller of _fetch_url after 1 + 2 + 4.
C4_Witness ==
    /\ retries = 3
    /\ attempts = <<500, 500, 500, 200>>
    /\ sleeps = <<1, 2, 4>>
    /\ pc = "loop"
    /\ response.data # <<>>

C6_NetworkFailureRetried ==
    (attempts # <<>> /\ Last(attempts) = 0 /\ Len(attempts) < retries + 1) =>
        /\ pc = "fetch"
        /\ Len(sleeps) = Len(attempts)

\* C7: a 200 response whose body does not parse as JSON makes _fetch_url
\* raise PVLiveException, and no further attempt is made.
C7_BadJsonRaises ==
    /\ \A i \in 1..(Len(attempts) - 1) : attempts[i] # 200
    /\ (attempts # <<>> /\ Last(attempts) = 200 /\ ~page.json) =>
          /\ pc \in {"fetch", "done"}
          /\ pc = "fetch" => success
          /\ pc = "done" => (outcome = "PVLiveException" /\ result = NoResult)

\* An unparseable body at the second attempt, with attempts left: raised.
C7_Witness ==
    /\ retries = 3
    /\ attempts = <<500, 200>>
    /\ ~page.json
    /\ pc = "done"
    /\ outcome = "PVLiveException"

\* C8: _nearest_interval(t, p) is t when t is on the p-minute grid; otherwise
\* it is on the grid, strictly later than t and less than p minutes after t.
OnGrid(t, p) == (t.lm % 60) % p = 0 /\ t.sec = 0 /\ t.us = 0
C8_AlignRoundsUp ==
    pc = "aligned" =>
        LET t == args.start
            p == args.period
        IN  IF OnGrid(t, p)
            THEN start = t
            ELSE /\ OnGrid(start, p)
                 /\ start.aware = t.aware /\ start.off = t.off
                 /\ DtLess(t, start)
                 /\ DtLess(start, [t EXCEPT !.lm = t.lm + p])

\* An instant with a grid minute and one microsecond is moved to the next
\* boundary.
C8_Witness ==
    /\ pc = "aligned"
    /\ args.period = 30
    /\ args.start.lm = 30 /\ args.start.sec = 0 /\ args.start.us = 1
    /\ start.lm = 60 /\ start.sec = 0 /\ start.us = 0

\* C9: an input error (unsupported entity kind, identifier not in the catalog,
\* unsupported period, naive start or end, end < start) is raised before any
\* request: the call makes no GET.
BadEntity(a) ==
    \/ a.entity_type \notin {PyStr("pes"), PyStr("gsp")}
    \/ a.entity_type = PyStr("pes") /\ a.entity_id # 0
          /\ a.entity_id \notin pes_ids
    \/ a.entity_type = PyStr("gsp") /\ a.entity_id \notin gsp_ids
BadInterval(a) ==
    \/ ~a.start.aware
    \/ ~a.end.aware
    \/ DtLess(a.end, a.start)
InputError ==
    \/ BadEntity(args)
    \/ args.period \notin {5, 30}
    \/ op \in BetweenOps /\ BadInterval(args)
C9_InputErrorsBeforeRequests ==
    /\ (op \in BetweenOps \cup {"latest"} /\ InputError) =>
          /\ pc = "done"
          /\ outcome \in {"TypeError", "ValueError", "PVLiveException"}
          /\ result = NoResult
          /\ gets = 0
          /\ requests = <<>>
    /\ outcome \in {"TypeError", "ValueError"} => gets = 0

\* between with a valid entity and period, aware instants and end < start.
C9_Witness ==
    /\ pc = "done"
    /\ op = "between"
    /\ ~BadEntity(args)
    /\ args.period = 30
    /\ args.start.aware /\ args.end.aware
    /\ DtLess(args.end, args.start)
    /\ outcome = "ValueError"
    /\ gets = 0

\* C10: a between call never returns a partial result: when the request of a
\* chunk fails the call raises and returns nothing, also not the records of
\* the chunks that succeeded; a returned result holds the data of every chunk.
C10_NoPartialResult ==
    (pc = "done" /\ op = "between") =>
        /\ outcome # "returned" => result = NoResult
        /\ outcome = "returned" =>
              /\ Len(responses) = Len(requests)
              /\ result.rows = Concat(responses)

\* The first chunk brought a record, a later chunk failed: nothing returned.
C10_Witness ==
    /\ pc = "done"
    /\ op = "between"
    /\ Len(requests) >= 2
    /\ Len(responses) = Len(requests) - 1
    /\ responses[1] # <<>>
    /\ outcome = "PVLiveException"
    /\ result = NoResult

\* C11: in a between call the request of a chunk is issued only when every
\* earlier request of the call has been answered (no request is outstanding),
\* it starts later than the one before it, and the list the call returns is
\* the chunks' data put together in the order of the requests.
C11_ChunksInTurn ==
    [][ op' = "between" =>
          /\ Len(requests') > Len(requests) =>
                /\ Len(requests') = Len(requests) + 1
                /\ Len(responses) = Len(requests)
                /\ \A i \in 1..Len(requests) :
                      requests[i].start.lm - requests[i].start.off
                        < Last(requests').start.lm - Last(requests').start.off
          /\ (outcome' = "returned" /\ outcome = "none") =>
                /\ Len(responses') = Len(requests')
                /\ result'.rows = Concat(responses') ]_vars

\* Two chunks, each answered with a record, and the call returned.
C11_Witness ==
    /\ pc = "done"
    /\ op = "between"
    /\ outcome = "returned"
    /\ Len(requests) = 2
    /\ responses[1] # <<>>
    /\ responses[2] # <<>>
    /\ responses[1] # responses[2]

\* The rows that _between returned to day_peak or day_energy.
DayRows == Concat(responses)
AllNullGen(rows) == \A i \in 1..Len(rows) : rows[i][3].isnull
SomeGen(rows) == \E i \in 1..Len(rows) : ~rows[i][3].isnull

\* C12: a day_peak over a day of which every record has a null generation_mw
\* returns None, never one of the records.
C12_AllNullNoPeak ==
    (/\ pc = "done"
     /\ op = "day_peak"
     /\ outcome = "returned"
     /\ DayRows # <<>>
     /\ AllNullGen(DayRows)) => result = NoneResult

\* C13: when a record of the day has a generation_mw, day_peak returns a
\* record of the day whose generation_mw is not null and not below that of
\* any other record, and of several such records the earliest.
C13_PeakIsFirstMaximum ==
    (/\ pc = "done"
     /\ op = "day_peak"
     /\ outcome = "returned"
     /\ SomeGen(DayRows)) =>
        \E i \in 1..Len(DayRows) :
            /\ result.rows = << DayRows[i] >>
            /\ ~DayRows[i][3].isnull
            /\ \A j \in 1..Len(DayRows) :
                  ~DayRows[j][3].isnull => DayRows[j][3].v <= DayRows[i][3].v
            /\ \A j \in 1..(i - 1) :
                  ~DayRows[j][3].isnull => DayRows[j][3].v < DayRows[i][3].v

\* The peak is held by two records, behind a null and a smaller one: the
\* first of the two is returned.
C13_Witness ==
    /\ pc = "done"
    /\ op = "day_peak"
    /\ outcome = "returned"
    /\ Len(DayRows) = 4
    /\ DayRows[1][3].isnull
    /\ DayRows[3][3] = DayRows[4][3]
    /\ result = TupleResult(DayRows[3])

\* The generation values of rows, a null one taken as zero.
GenOrZero(rows) ==
    [i \in 1..Len(rows) |-> IF rows[i][3].isnull THEN 0 ELSE rows[i][3].v]

\* C14: day_energy returns half the sum of the generation_mw of the day's
\* records, a null generation_mw counting as zero, and None when the day has
\* no records.
C14_DayEnergy ==
    (/\ pc = "done"
     /\ op = "day_energy"
     /\ outcome = "returned") =>
        IF DayRows = <<>>
        THEN result = NoneResult
        ELSE /\ result.kind = "float"
             /\ 2 * result.value = 10 * SumSeq(GenOrZero(DayRows))

\* A day of three records, the middle one without a value: 0.5 * (2 + 0 + 2).
C14_Witness ==
    /\ pc = "done"
    /\ op = "day_energy"
    /\ outcome = "returned"
    /\ Len(DayRows) = 3
    /\ DayRows[2][3].isnull
    /\ ~DayRows[3][3].isnull
    /\ result = FloatResult(20)

AllNullRecord == << Null, Null, Null >>

\* C16: when the service has no data for the instant, at_time with dataframe
\* false returns the all-null record and raises nothing.
C16_AtTimeNoData ==
    (/\ pc = "done"
     /\ op = "at_time"
     /\ ~args.dataframe
     /\ Len(responses) = 1
     /\ responses[1] = <<>>) =>
        /\ outcome = "returned"
        /\ result = TupleResult(AllNullRecord)

\* The request of latest carries neither start nor end.
LatestRequestsOpen ==
    \A i \in 1..Len(requests) :
        requests[i].start = NoParam /\ requests[i].end = NoParam

C18_DayPeakInterval ==
    (op = "day_peak" /\ args.period \in {5, 30} /\ requests # <<>>) =>
        /\ Len(requests) = 1
        /\ requests[1].start =
              IsoFormatZ(DT(args.d * MinutesPerDay + args.period,
                            0, 0, TRUE, 0))
        /\ requests[1].end =
              IsoFormatZ(DT((args.d + 1) * MinutesPerDay, 0, 0, TRUE, 0))

\* The length in minutes of the aligned interval of the call.
AlignedLength == AlignedEnd - AlignedStart

\* C19: for a regional entity the starts of consecutive requests lie 30 days
\* and one period apart, an aligned interval of length L takes
\* floor(L / (30 days + period)) + 1 requests, and an interval of 400 days
\* takes ceil(400 / 30) = 14 of them.
C19_ChunkCount ==
    (op = "between" /\ args.entity_id # 0) =>
        /\ \A i \in 1..(Len(requests) - 1) :
              ReqStart(i + 1) - ReqStart(i)
                = RegionalDays * MinutesPerDay + args.period
        /\ LoopDone =>
              Len(requests)
                = (AlignedLength \div (max_range_regional + args.period)) + 1
        /\ (LoopDone /\ AlignedLength = 400 * MinutesPerDay) =>
              /\ Len(requests) = 14
              /\ Len(requests) = (400 + RegionalDays - 1) \div RegionalDays

\* 400 days of a regional entity were fetched with 14 requests.
C19_Witness ==
    /\ pc = "done"
    /\ op = "between"
    /\ args.entity_id # 0
    /\ AlignedLength = 400 * MinutesPerDay
    /\ outcome = "returned"
    /\ Len(requests) = 14
    /\ Len(result.rows) = 14

\* The cases of failure that the claim lists.
BadKind(a) ==
    ~(PyEq(a.entity_type, PyStr("pes")) \/ PyEq(a.entity_type, PyStr("gsp")))
BadPesId(a) ==
    /\ PyEq(a.entity_type, PyStr("pes"))
    /\ a.entity_id # 0
    /\ a.entity_id \notin pes_ids
BadGspId(a) ==
    PyEq(a.entity_type, PyStr("gsp")) /\ a.entity_id \notin gsp_ids
BadPeriod(a) == a.period # 5 /\ a.period # 30
ValidateDone == pc = "done" /\ op = "_validate_inputs"

\* C20: _validate_inputs fails exactly when the kind is not 'pes' or 'gsp',
\* or the kind is 'pes' and the identifier is neither 0 nor in the pes
\* catalog, or the kind is 'gsp' and the identifier is not in the gsp
\* catalog, or the period is not 5 or 30; otherwise it returns.
C20_ValidateFailsExactly ==
    ValidateDone =>
        (outcome # "returned"
           <=> (BadKind(args) \/ BadPesId(args) \/ BadGspId(args)
                  \/ BadPeriod(args)))

\* C20, amended: the cases of failure are those above and an extra_fields
\* that is not a string.
C20_ValidateFailsExactlyStr ==
    ValidateDone =>
        (outcome # "returned"
           <=> (BadKind(args) \/ BadPesId(args) \/ BadGspId(args)
                  \/ BadPeriod(args) \/ args.extra_fields.t # "str"))

\* Kind, identifier and period are good, extra_fields is an int: TypeError.
C20_Witness ==
    /\ ValidateDone
    /\ ~BadKind(args) /\ ~BadPesId(args) /\ ~BadGspId(args)
    /\ ~BadPeriod(args)
    /\ args.extra_fields.t # "str"
    /\ outcome = "TypeError"

\* C21: for every timezone-aware start and end that between accepts, of any
\* UTC offset, the start and end of every request are the instants in UTC,
\* written with the suffix Z; no request carries a numeric offset.
C21_ParamsInUtc ==
    (op = "between" /\ args.start.aware /\ args.end.aware) =>
        \A i \in 1..Len(requests) :
            /\ requests[i].start.z
            /\ requests[i].end.z
            /\ requests[i].start.lm = ReqStart(i)
            /\ requests[i].end.lm = ReqEnd(i)

\* A result without the record count: no column n_records, and every record
\* is a record of the answers cut to the fields of the plain meta.
StripCount(row) == SubSeq(row, 1, 3)
ResultIsStripped ==
    /\ \A i \in 1..Len(result.columns) : result.columns[i] # "n_records"
    /\ \A i \in 1..Len(result.rows) :
          \E k \in 1..Len(responses) : \E j \in 1..Len(responses[k]) :
              result.rows[i] = StripCount(responses[k][j])

\* C22: whenever the meta of the service holds the record count, the result
\* that latest, at_time, between or day_peak returns has no such column and
\* no such value in its records; without the field the records are returned
\* as they came.
C22_CountStripped ==
    (/\ pc = "done"
     /\ op \in {"latest", "at_time", "between", "day_peak"}
     /\ outcome = "returned") => ResultIsStripped

DeployDone == pc = "done" /\ op = "deployment"
SizeAsked(a) == PyEq(a.by_system_size, PyBool(TRUE))
IsGsp(a) == PyEq(a.region, PyStr("gsp"))
HistoryOff(a) == PyEq(a.include_history, PyBool(FALSE))
HistoryOn(a) == PyEq(a.include_history, PyBool(TRUE))
NoFileAsked == \A i \in 1..Len(urls) : urls[i] # "file"
\* release names one of the releases that the object has stored.
ReleaseExists(a) ==
    \/ a.release.t = "int"
         /\ a.release.n \in 0..(Len(deployment_releases.list) - 1)
    \/ a.release.t = "str"
         /\ \E i \in 1..Len(deployment_releases.list) :
               deployment_releases.list[i] = a.release.n

\* C23: deployment raises ValueError whenever by_system_size is True and
\* region is not 'gsp' or include_history is False, and then downloads no
\* capacity file; with region 'gsp', include_history True and by_system_size
\* True the inputs are accepted.
C23_SizeNeedsGspHistory ==
    op = "deployment" =>
        /\ (SizeAsked(args) /\ (~IsGsp(args) \/ HistoryOff(args))) =>
              /\ NoFileAsked
              /\ pc = "done" => outcome = "ValueError"
        /\ (DeployDone /\ SizeAsked(args) /\ IsGsp(args) /\ HistoryOn(args)) =>
              outcome \notin {"ValueError", "TypeError"}

\* C23, amended: once the object has the list of the releases, and for a
\* region that is a string and an include_history that is a bool, deployment
\* raises ValueError whenever by_system_size is True and region is not 'gsp'
\* or include_history is False, and then downloads no capacity file; with
\* region 'gsp', include_history True and by_system_size True the inputs are
\* accepted when release names a release of the list.
C23_SizeNeedsGspHistoryListed ==
    op = "deployment" =>
        /\ (/\ SizeAsked(args)
            /\ args.region.t = "str"
            /\ args.include_history.t = "bool"
            /\ (~IsGsp(args) \/ HistoryOff(args))) =>
              /\ NoFileAsked
              /\ (pc = "done" /\ deployment_releases.known) =>
                    outcome = "ValueError"
        /\ (/\ DeployDone
            /\ SizeAsked(args) /\ IsGsp(args) /\ HistoryOn(args)
            /\ deployment_releases.known
            /\ ReleaseExists(args)) =>
              outcome \notin {"ValueError", "TypeError"}

\* deployment(region='gsp', by_system_size=True), include_history False: the
\* releases were fetched, ValueError was raised, nothing else was fetched.
C23_Witness ==
    /\ DeployDone
    /\ SizeAsked(args) /\ IsGsp(args) /\ HistoryOff(args)
    /\ urls = << "releases" >>
    /\ deployment_releases.known
    /\ outcome = "ValueError"

\* A run of _fetch_url has ended: by a return or by an exception.
FetchOver == pc # "fetch" /\ attempts # <<>>

\* C24: a delay is slept only before a retry: when a run of _fetch_url has
\* ended the sleeps are one fewer than the GETs; when all retries + 1 GETs
\* failed, no sleep followed the last of them and the delays slept before the
\* failure was raised add up to 2^retries - 1.
C24_SleepsBetweenAttempts ==
    FetchOver =>
        /\ Len(sleeps) = Len(attempts) - 1
        /\ (/\ Len(attempts) = retries + 1
            /\ \A i \in 1..Len(attempts) : attempts[i] = 500) =>
              SumSeq(sleeps) = 2 ^ retries - 1

\* The program runs on: a call that has begun takes its next step, and every
\* GET comes to an end.
SpecLive == Spec /\ WF_vars(LoopIter \/ LoopExit \/ Get \/ FetchEnd)

\* A between call whose inputs passed the checks of _between.
ValidBetween ==
    /\ op = "between"
    /\ BetweenChecks(args.start, args.end, args.entity_type, args.entity_id,
                     args.extra_fields, args.period) = "ok"

\* C25: every between call with valid inputs ends, by a result or by an
\* exception: the cursor grows with every iteration, the attempt counter
\* grows with every GET up to retries + 1, and at least one request is
\* issued, the aligned start being no later than the aligned end.
C25_BetweenTerminates ==
    /\ [](ValidBetween => <>(pc = "done"))
    /\ [][(ValidBetween /\ request_start' # request_start /\ pc = "fetch")
            => DtLess(request_start, request_start')]_vars
    /\ [][(ValidBetween /\ try_counter' # try_counter /\ pc = "fetch")
            => (try_counter' = try_counter + 1
                /\ try_counter' <= retries + 1)]_vars
    /\ [](ValidBetween =>
            /\ DtLessEq(start, end)
            /\ pc = "done" => requests # <<>>)

\* C26: a response of status 400 reaches the caller as PVLiveException
\* whatever its body, also a body without a <p> element.
C26_BadRequestIsPVLiveException ==
    (attempts # <<>> /\ Last(attempts) = BadRequest) =>
        (pc = "done" /\ outcome = "PVLiveException")

\* C27: the retries are counted for each request, not for the call: when the
\* request of a chunk starts, the attempt counter is 0 and the delay 1,
\* whatever the earlier chunks of the call used up, no request takes more
\* than retries + 1 GETs, and a between call of n chunks makes at most
\* n * (retries + 1) GETs.
C27_BudgetPerRequest ==
    op \in BetweenOps =>
        /\ (pc = "fetch" /\ attempts = <<>>) =>
              (try_counter = 0 /\ delay = 1)
        /\ try_counter = Len(attempts)
        /\ Len(attempts) <= retries + 1
        /\ gets <= Len(requests) * (retries + 1)

\* The first chunk took every attempt it had, the last of them a success; the
\* request of the second chunk starts afresh.
C27_Witness ==
    /\ op = "between"
    /\ retries >= 1
    /\ Len(requests) = 2
    /\ gets = retries + 1
    /\ pc = "fetch"
    /\ attempts = <<>>
    /\ try_counter = 0
    /\ delay = 1

====
